---------------------------- MODULE Spec2Model ----------------------------
(***************************************************************************)
(* Model of mv3_wgui.py: a Qt main window (foreground thread) that starts  *)
(* one Worker per click on a QThread; the Worker converts a video into an  *)
(* image folder (Worker.images) or an image list into a video              *)
(* (Worker.video) and reports through the queued signals progress and      *)
(* finished.                                                               *)
(***************************************************************************)
EXTENDS Integers, Sequences, FiniteSets, TLC

(***************************************************************************)
(* Bounds of the model.                                                    *)
(***************************************************************************)
MaxFrames == 10     \* most frames a video yields before read() fails
MaxSkew == 2        \* most frames of a video whose frame count is misreported
MaxImgs == 2        \* most files in a selected image folder
MaxRepeat == 2      \* largest repeatframe entered
PathLen == 2        \* characters of a selected video path

(***************************************************************************)
(* Values entered or found on disk.                                        *)
(***************************************************************************)
DefaultFps == 30
BadImage == [ok |-> FALSE, shape |-> <<0, 0>>]
\* an image is unreadable (imread gives None) or has shape (height, width)
Shapes == {<<1, 2>>, <<2, 1>>}
Images == {BadImage} \cup {[ok |-> TRUE, shape |-> s] : s \in Shapes}
ImageLists == UNION {[1..n -> Images] : n \in 0..MaxImgs}
\* a video file: the frames that read() delivers, CAP_PROP_FRAME_COUNT as
\* the backend reports it and CAP_PROP_FPS. The count is exact, or for short
\* videos any estimate, too small, too large or negative.
Videos ==
    {[frames |-> f, count |-> f, fps |-> DefaultFps] : f \in 0..MaxFrames}
    \cup {[frames |-> f, count |-> c, fps |-> r] :
            f \in 0..MaxSkew, c \in (-MaxSkew)..(MaxSkew + 1), r \in {0, DefaultFps}}
EmptyList == [kind |-> "list", imgs |-> << >>, video |-> [frames |-> 0, count |-> 0, fps |-> 0]]
ListSource(l) == [kind |-> "list", imgs |-> l, video |-> [frames |-> 0, count |-> 0, fps |-> 0]]
StrSource(v) == [kind |-> "str", imgs |-> << >>, video |-> v]

(***************************************************************************)
(* Python helpers used by the converters.                                  *)
(***************************************************************************)
Abs(n) == IF n < 0 THEN -n ELSE n

DigitChar == <<"0", "1", "2", "3", "4", "5", "6", "7", "8", "9">>

RECURSIVE StrNat(_)
StrNat(n) ==
    IF n < 10 THEN <<DigitChar[n + 1]>>
    ELSE StrNat(n \div 10) \o <<DigitChar[(n % 10) + 1]>>

\* str(n) for an int, as a sequence of characters
Str(n) == IF n < 0 THEN <<"-">> \o StrNat(-n) ELSE StrNat(n)

RECURSIVE Zeros(_)
Zeros(n) == IF n <= 0 THEN << >> ELSE <<"0">> \o Zeros(n - 1)

\* str.zfill(width): zeros go after a leading sign
ZFill(s, width) ==
    IF Len(s) >= width THEN s
    ELSE IF Len(s) > 0 /\ s[1] \in {"-", "+"}
         THEN <<s[1]>> \o Zeros(width - Len(s)) \o Tail(s)
         ELSE Zeros(width - Len(s)) \o s

\* the name without the padding
FrameNameUnpadded(i, width) == Str(i) \o <<".png">>

\* f"{str(i).zfill(width)}.png"
FrameName(i, width) == ZFill(Str(i), width) \o <<".png">>

\* Integers m for which the double 100 * (m / 100) lies just below m, so
\* that int() gives m - 1 (IEEE-754 binary64, round to nearest).
FloatShort ==
    {29, 57, 58, 113, 114, 115, 116, 201, 203, 205, 207, 226, 228, 230, 232,
     251, 253, 255, 402, 406, 410, 414, 427, 431, 435, 439, 452, 456, 460,
     464, 477, 481, 485, 489, 502, 506, 510, 803, 804, 812, 820, 828, 829,
     837, 845, 853, 854, 862, 870, 878, 879, 887, 895, 903, 904, 912, 920,
     928, 929, 937, 945, 953, 954, 962, 970, 978, 979, 987, 995, 1003, 1004,
     1012, 1020}

\* int(100 * (k / n)) for k >= 0, n # 0: float division, float product,
\* truncation toward zero
PyProgress(k, n) ==
    LET a == 100 * k
        b == Abs(n)
        q == a \div b
        mag == IF a % b = 0 /\ q \in FloatShort THEN q - 1 ELSE q
    IN IF n < 0 THEN -mag ELSE mag

\* x or y on ints
PyOr(x, y) == IF x # 0 THEN x ELSE y

Min(a, b) == IF a < b THEN a ELSE b
Max(a, b) == IF a > b THEN a ELSE b

\* a slice that ignores its stop
SliceAll(len, n) == len

\* the number of elements of seq[:n] (Python slice with a possibly negative
\* stop) for a sequence of len elements
SliceLen(len, n) ==
    IF n >= 0 THEN Min(n, len) ELSE Max(len + n, 0)


(***************************************************************************)
(* Text typed into the configuration fields, as characters.                *)
(***************************************************************************)
DigitValue(c) == CHOOSE d \in 0..9 : DigitChar[d + 1] = c

IsDigits(s) == Len(s) > 0 /\ \A j \in 1..Len(s) : s[j] \in {DigitChar[d] : d \in 1..10}

RECURSIVE NatValue(_)
NatValue(s) ==
    IF Len(s) = 0 THEN 0
    ELSE 10 * NatValue(SubSeq(s, 1, Len(s) - 1)) + DigitValue(s[Len(s)])

\* int(text): an optional sign and decimal digits, else ValueError
PyInt(s) ==
    IF Len(s) > 0 /\ s[1] \in {"-", "+"}
    THEN IF IsDigits(Tail(s))
         THEN [ok |-> TRUE, v |-> IF s[1] = "-" THEN -NatValue(Tail(s)) ELSE NatValue(Tail(s))]
         ELSE [ok |-> FALSE, v |-> 0]
    ELSE IF IsDigits(s) THEN [ok |-> TRUE, v |-> NatValue(s)]
         ELSE [ok |-> FALSE, v |-> 0]

\* float(text), for the whole numbers typed here
PyFloat(s) == PyInt(s)

\* What the five fields hold when update_config reads them: max_length,
\* size (two fields), repeatframe, fps.
ConfigTexts ==
    \* every max_length, size inferred
    {<<Str(n), Str(0), Str(0), Str(1), Str(DefaultFps)>> : n \in -1..(MaxImgs + 1)}
    \* a size given, frames repeated
    \cup {<<Str(n), Str(2), Str(2), Str(MaxRepeat), Str(DefaultFps)>> : n \in {0, MaxImgs + 1}}
    \* a size cv2.resize rejects
    \cup {<<Str(0), Str(0), Str(2), Str(1), Str(DefaultFps)>>}
    \* fields that do not parse
    \cup {<<Str(1), Str(2), Str(2), Str(MaxRepeat), <<"x">> >>,
          << << >>, Str(0), Str(0), Str(1), Str(DefaultFps)>>,
          <<Str(1), <<"2", "x">>, Str(2), Str(1), Str(DefaultFps)>>}

\* int() and float() of every text a field can hold
FieldTexts == UNION {{t[k] : k \in 1..5} : t \in ConfigTexts}
IntOfText == [s \in FieldTexts |-> PyInt(s)]
FloatOfText == [s \in FieldTexts |-> PyFloat(s)]

(***************************************************************************)
(* State.                                                                  *)
(***************************************************************************)
VARIABLES
    config,          \* MainWindow.config
    filenames,       \* MainWindow.filenames: a list of images or a video path
    mode,            \* MainWindow.mode
    mv_button,       \* mv_button.isEnabled()
    data_button,     \* data_button.isEnabled()
    mode_slider,     \* mode_slider.isEnabled()
    worker,          \* the Worker of the last action(): its filenames and config
    slot,            \* the Worker slot connected to worker_thread.started
    pc,              \* where the worker thread is: idle, started, loop, done
    i,               \* loop counter: i of images(), idx of video()
    handle,          \* the VideoCapture / VideoWriter of the job
    created,         \* os.mkdir(dir_path) was called by the job
    files,           \* names handed to cv2.imwrite by the job, in order
    frames,          \* frames handed to output.write by the job, in order
    queue,           \* queued signal deliveries posted to the main thread
    received,        \* deliveries the main thread has run for the job, in order
    thread_running   \* the QThread event loop has not been told to quit

vars == <<config, filenames, mode, mv_button, data_button, mode_slider, worker,
          slot, pc, i, handle, created, files, frames, queue, received,
          thread_running>>

gui == <<config, filenames, mode, mv_button, data_button, mode_slider>>
job == <<worker, slot, pc, i, handle, created, files, frames>>

DefaultConfig ==
    [max_length |-> 0, size |-> <<0, 0>>, repeatframe |-> 1, fps |-> DefaultFps]

NoWorker == [filenames |-> EmptyList, config |-> DefaultConfig]

Init ==
    /\ config = DefaultConfig
    /\ filenames = EmptyList
    /\ mode = "f2v"
    /\ mv_button \in BOOLEAN
    /\ data_button = TRUE
    /\ mode_slider = TRUE
    /\ worker = NoWorker
    /\ slot = "video"
    /\ pc = "idle"
    /\ i = 0
    /\ handle = "none"
    /\ created = FALSE
    /\ files = << >>
    /\ frames = << >>
    /\ queue = << >>
    /\ received = << >>
    /\ thread_running = FALSE

(***************************************************************************)
(* MainWindow: handlers run by the main thread.                            *)
(***************************************************************************)
\* bool(self.filenames): a non-empty list or a non-empty path
Truthy(src) == src.kind = "str" \/ Len(src.imgs) > 0

\* filedialog_folder in mode f2v; chosen is FALSE when the dialog is cancelled
SelectFolder(chosen, l) ==
    /\ data_button
    /\ mode = "f2v"
    /\ filenames' = IF chosen THEN ListSource(l) ELSE filenames
    /\ mv_button' = Truthy(filenames')
    /\ UNCHANGED <<config, mode, data_button, mode_slider>>
    /\ UNCHANGED <<job, queue, received, thread_running>>

\* filedialog_folder in mode v2f
SelectVideo(chosen, v) ==
    /\ data_button
    /\ mode # "f2v"
    /\ filenames' = IF chosen THEN StrSource(v) ELSE filenames
    /\ mv_button' = Truthy(filenames')
    /\ UNCHANGED <<config, mode, data_button, mode_slider>>
    /\ UNCHANGED <<job, queue, received, thread_running>>

change_mode(value) ==
    /\ mode_slider
    /\ mode' = IF value = 0 THEN "f2v" ELSE "v2f"
    /\ UNCHANGED <<config, filenames, mv_button, data_button, mode_slider>>
    /\ UNCHANGED <<job, queue, received, thread_running>>

\* a configuration written field by field until a field fails to parse
UpdatedConfigPartial(cfg, t_len, t_w, t_h, t_rep, t_fps) ==
    LET len == IntOfText[t_len]
        w == IntOfText[t_w]
        h == IntOfText[t_h]
        rep == IntOfText[t_rep]
        fps == FloatOfText[t_fps]
        c1 == IF len.ok THEN [cfg EXCEPT !.max_length = len.v] ELSE cfg
        c2 == IF len.ok /\ w.ok /\ h.ok THEN [c1 EXCEPT !.size = <<w.v, h.v>>] ELSE c1
        c3 == IF len.ok /\ w.ok /\ h.ok /\ rep.ok
              THEN [c2 EXCEPT !.repeatframe = rep.v] ELSE c2
    IN IF len.ok /\ w.ok /\ h.ok /\ rep.ok /\ fps.ok
       THEN [c3 EXCEPT !.fps = fps.v] ELSE c3

\* self.config after update_config() has read the five fields: the dict is
\* built whole before it is assigned; a ValueError leaves self.config as is
UpdatedConfig(cfg, t_len, t_w, t_h, t_rep, t_fps) ==
    LET len == IntOfText[t_len]
        w == IntOfText[t_w]
        h == IntOfText[t_h]
        rep == IntOfText[t_rep]
        fps == FloatOfText[t_fps]
    IN IF len.ok /\ w.ok /\ h.ok /\ rep.ok /\ fps.ok
       THEN [max_length |-> len.v, size |-> <<w.v, h.v>>,
             repeatframe |-> rep.v, fps |-> fps.v]
       ELSE cfg

\* update_config() that writes into the dict the running Worker holds
UpdateConfigInPlace(t_len, t_w, t_h, t_rep, t_fps) ==
    /\ config' = UpdatedConfig(config, t_len, t_w, t_h, t_rep, t_fps)
    /\ worker' = IF pc = "idle" THEN worker ELSE [worker EXCEPT !.config = config']
    /\ UNCHANGED <<filenames, mode, mv_button, data_button, mode_slider>>
    /\ UNCHANGED <<slot, pc, i, handle, created, files, frames>>
    /\ UNCHANGED <<queue, received, thread_running>>

\* update_config() reading the five fields. No signal is connected to it
\* in setup_connections; it is a method of the window that its owner may
\* call whenever the main thread is free, a job running or not. It binds
\* self.config to a new dict: the dict a Worker was given is not touched.
update_config(t_len, t_w, t_h, t_rep, t_fps) ==
    /\ config' = UpdatedConfig(config, t_len, t_w, t_h, t_rep, t_fps)
    /\ UNCHANGED <<filenames, mode, mv_button, data_button, mode_slider>>
    /\ UNCHANGED <<job, queue, received, thread_running>>

\* action() that leaves the trigger enabled
ActionKeepsTrigger ==
    /\ mv_button
    /\ mv_button' = TRUE
    /\ data_button' = FALSE
    /\ mode_slider' = FALSE
    /\ worker' = [filenames |-> filenames, config |-> config]
    /\ slot' = IF mode = "f2v" THEN "video" ELSE "images"
    /\ pc' = "started"
    /\ thread_running' = TRUE
    /\ i' = 0
    /\ handle' = "none"
    /\ created' = FALSE
    /\ files' = << >>
    /\ frames' = << >>
    /\ received' = << >>
    /\ UNCHANGED <<config, filenames, mode, queue>>

\* action(), run by a click on the enabled mv_button
action ==
    /\ mv_button
    /\ mv_button' = FALSE
    /\ data_button' = FALSE
    /\ mode_slider' = FALSE
    /\ worker' = [filenames |-> filenames, config |-> config]
    /\ slot' = IF mode = "f2v" THEN "video" ELSE "images"
    /\ pc' = "started"
    /\ thread_running' = TRUE
    /\ i' = 0
    /\ handle' = "none"
    /\ created' = FALSE
    /\ files' = << >>
    /\ frames' = << >>
    /\ received' = << >>
    /\ UNCHANGED <<config, filenames, mode, queue>>

(***************************************************************************)
(* Queued signal deliveries, run by the main thread's event loop in the    *)
(* order they were posted.                                                 *)
(***************************************************************************)
Progress(v) == [type |-> "progress", v |-> v]
Quit == [type |-> "quit", v |-> 0]
OnFinish == [type |-> "on_finish", v |-> 0]

\* self.finished.emit(): one delivery per connected slot, in connection order
Finished == <<Quit, OnFinish>>

\* the next delivery to run
NextEvent == Head(queue)

\* progress -> self.progress.setValue
DeliverProgress ==
    /\ queue # << >>
    /\ NextEvent.type = "progress"
    /\ received' = Append(received, NextEvent)
    /\ queue' = Tail(queue)
    /\ UNCHANGED <<gui, job, thread_running>>

\* finished -> self.worker_thread.quit
DeliverQuit ==
    /\ queue # << >>
    /\ NextEvent.type = "quit"
    /\ thread_running' = FALSE
    /\ received' = Append(received, NextEvent)
    /\ queue' = Tail(queue)
    /\ UNCHANGED <<gui, job>>

\* on_finish() that leaves the mode slider disabled
OnFinishKeepsSlider ==
    /\ queue # << >>
    /\ NextEvent.type = "on_finish"
    /\ mv_button' = TRUE
    /\ data_button' = TRUE
    /\ mode_slider' = FALSE
    /\ queue' = Tail(queue)
    /\ worker' = NoWorker
    /\ slot' = "video"
    /\ pc' = "idle"
    /\ i' = 0
    /\ handle' = "none"
    /\ created' = FALSE
    /\ files' = << >>
    /\ frames' = << >>
    /\ received' = << >>
    /\ UNCHANGED <<config, filenames, mode, thread_running>>

\* finished -> self.on_finish. The finished Worker, its thread and what it
\* did are not read again: the job is over and its record is dropped.
on_finish ==
    /\ queue # << >>
    /\ NextEvent.type = "on_finish"
    /\ mv_button' = TRUE
    /\ data_button' = TRUE
    /\ mode_slider' = TRUE
    /\ queue' = Tail(queue)
    /\ worker' = NoWorker
    /\ slot' = "video"
    /\ pc' = "idle"
    /\ i' = 0
    /\ handle' = "none"
    /\ created' = FALSE
    /\ files' = << >>
    /\ frames' = << >>
    /\ received' = << >>
    /\ UNCHANGED <<config, filenames, mode, thread_running>>

(***************************************************************************)
(* Worker.images: video -> image folder, run by the worker thread.         *)
(***************************************************************************)
\* int(cap.get(cv2.CAP_PROP_FRAME_COUNT))
length == worker.filenames.video.count

\* len(str(length))
width == Len(Str(length))

\* an except branch with no finally: finished is not emitted
RaiseSilent ==
    /\ pc' = "done"
    /\ UNCHANGED <<worker, slot, i, handle, created, files, frames>>
    /\ UNCHANGED <<gui, queue, received, thread_running>>

\* the except/finally of both converters after an exception: nothing is
\* released, finished is emitted
Raise ==
    /\ pc' = "done"
    /\ queue' = queue \o Finished
    /\ UNCHANGED <<worker, slot, i, handle, created, files, frames>>
    /\ UNCHANGED <<gui, received, thread_running>>

\* cv2.VideoCapture(self.filenames) is handed a list: it raises
ImagesBadSource ==
    /\ pc = "started" /\ slot = "images"
    /\ worker.filenames.kind # "str"
    /\ Raise

\* the folder is created before the source is validated
ImagesInvalidAfterMkdir ==
    /\ pc = "started" /\ slot = "images"
    /\ worker.filenames.kind = "str"
    /\ (length = 0 \/ worker.filenames.video.fps = 0)
    /\ pc' = "done"
    /\ handle' = "open"
    /\ created' = TRUE
    /\ queue' = queue \o Finished
    /\ UNCHANGED <<worker, slot, i, files, frames>>
    /\ UNCHANGED <<gui, received, thread_running>>

\* length == 0 or fps == 0: ValueError("Invalid video file.")
ImagesInvalid ==
    /\ pc = "started" /\ slot = "images"
    /\ worker.filenames.kind = "str"
    /\ (length = 0 \/ worker.filenames.video.fps = 0)
    /\ pc' = "done"
    /\ handle' = "open"
    /\ queue' = queue \o Finished
    /\ UNCHANGED <<worker, slot, i, created, files, frames>>
    /\ UNCHANGED <<gui, received, thread_running>>

\* the capture is opened and the folder created unless it exists
ImagesOpen(exists) ==
    /\ pc = "started" /\ slot = "images"
    /\ worker.filenames.kind = "str"
    /\ ~(length = 0 \/ worker.filenames.video.fps = 0)
    /\ handle' = "open"
    /\ created' = ~exists
    /\ i' = 1
    /\ pc' = "loop"
    /\ UNCHANGED <<worker, slot, files, frames>>
    /\ UNCHANGED <<gui, queue, received, thread_running>>

\* one pass of the while loop with ret true
ImagesFrame ==
    /\ pc = "loop" /\ slot = "images"
    /\ i <= worker.filenames.video.frames
    /\ files' = Append(files, FrameName(i, width))
    /\ queue' = Append(queue, Progress(PyProgress(i, length)))
    /\ i' = i + 1
    /\ UNCHANGED <<worker, slot, pc, handle, created, frames>>
    /\ UNCHANGED <<gui, received, thread_running>>

\* read() gives ret false: the loop ends, cap.release(), finished
ImagesEnd ==
    /\ pc = "loop" /\ slot = "images"
    /\ i > worker.filenames.video.frames
    /\ handle' = "released"
    /\ pc' = "done"
    /\ queue' = queue \o Finished
    /\ UNCHANGED <<worker, slot, i, created, files, frames>>
    /\ UNCHANGED <<gui, received, thread_running>>

(***************************************************************************)
(* Worker.video: image list -> video, run by the worker thread.            *)
(***************************************************************************)
\* self.filenames as video() indexes it: the list, or the characters of a
\* path, none of which names a readable image
Items(src) ==
    IF src.kind = "list" THEN src.imgs ELSE [j \in 1..PathLen |-> BadImage]

\* self.config["max_length"] or len(self.filenames)
max_length == PyOr(worker.config.max_length, Len(Items(worker.filenames)))

\* self.filenames[:max_length]
Consumed ==
    SubSeq(Items(worker.filenames), 1,
           SliceLen(Len(Items(worker.filenames)), max_length))

\* inference that falls back to any readable image of the list
CanInferFromAny ==
    \E k \in 1..Len(Items(worker.filenames)) : Items(worker.filenames)[k].ok

\* cv2.imread(self.filenames[0]).shape[1::-1] raises on an empty list and
\* on an unreadable first image
CanInfer ==
    /\ Len(Items(worker.filenames)) > 0
    /\ Items(worker.filenames)[1].ok

\* shape[1::-1] of a (height, width, channels) shape: (width, height)
ShapeToSize(shape) == <<shape[2], shape[1]>>

size ==
    IF worker.config.size = <<0, 0>>
    THEN ShapeToSize(Items(worker.filenames)[1].shape)
    ELSE worker.config.size

\* cv2.resize accepts a size with positive width and height only
ValidSize(sz) == sz[1] > 0 /\ sz[2] > 0

\* size must be inferred and cannot be
VideoNoSize ==
    /\ pc = "started" /\ slot = "video"
    /\ worker.config.size = <<0, 0>>
    /\ ~CanInfer
    /\ Raise

\* the VideoWriter is created
VideoOpen ==
    /\ pc = "started" /\ slot = "video"
    /\ (worker.config.size = <<0, 0>> => CanInfer)
    /\ handle' = "open"
    /\ i' = 0
    /\ pc' = "loop"
    /\ UNCHANGED <<worker, slot, created, files, frames>>
    /\ UNCHANGED <<gui, queue, received, thread_running>>

\* the frame written once whatever repeatframe is
RepeatOnce(x, n) == <<x>>

\* range(repeatframe) copies of a frame
RECURSIVE Repeat(_, _)
Repeat(x, n) == IF n <= 0 THEN << >> ELSE <<x>> \o Repeat(x, n - 1)

\* one pass of the for loop over an unreadable image: continue
VideoSkip ==
    /\ pc = "loop" /\ slot = "video"
    /\ i < Len(Consumed)
    /\ ~Consumed[i + 1].ok
    /\ i' = i + 1
    /\ UNCHANGED <<worker, slot, pc, handle, created, files, frames>>
    /\ UNCHANGED <<gui, queue, received, thread_running>>

\* one pass over a readable image: resize, write repeatframe times, emit
VideoFrame ==
    /\ pc = "loop" /\ slot = "video"
    /\ i < Len(Consumed)
    /\ Consumed[i + 1].ok
    /\ ValidSize(size)
    /\ frames' = frames \o Repeat([img |-> i + 1, size |-> size],
                                  worker.config.repeatframe)
    /\ queue' = Append(queue, Progress(PyProgress(i + 1, max_length)))
    /\ i' = i + 1
    /\ UNCHANGED <<worker, slot, pc, handle, created, files>>
    /\ UNCHANGED <<gui, received, thread_running>>

\* cv2.resize raises on the first readable image
VideoResizeError ==
    /\ pc = "loop" /\ slot = "video"
    /\ i < Len(Consumed)
    /\ Consumed[i + 1].ok
    /\ ~ValidSize(size)
    /\ Raise

\* the list is exhausted: output.release(), finished
VideoEnd ==
    /\ pc = "loop" /\ slot = "video"
    /\ i >= Len(Consumed)
    /\ handle' = "released"
    /\ pc' = "done"
    /\ queue' = queue \o Finished
    /\ UNCHANGED <<worker, slot, i, created, files, frames>>
    /\ UNCHANGED <<gui, received, thread_running>>

(***************************************************************************)
(* The program.                                                            *)
(***************************************************************************)
WorkerStep ==
    \/ ImagesBadSource
    \/ ImagesInvalid
    \/ \E exists \in BOOLEAN : ImagesOpen(exists)
    \/ ImagesFrame
    \/ ImagesEnd
    \/ VideoNoSize
    \/ VideoOpen
    \/ VideoSkip
    \/ VideoFrame
    \/ VideoResizeError
    \/ VideoEnd

Deliver ==
    \/ DeliverProgress
    \/ DeliverQuit
    \/ on_finish

Next ==
    \/ \E chosen \in BOOLEAN, l \in ImageLists : SelectFolder(chosen, l)
    \/ \E chosen \in BOOLEAN, v \in Videos : SelectVideo(chosen, v)
    \/ \E value \in 0..1 : change_mode(value)
    \/ \E t \in ConfigTexts : update_config(t[1], t[2], t[3], t[4], t[5])
    \/ action
    \/ DeliverProgress
    \/ DeliverQuit
    \/ on_finish
    \/ WorkerStep

Spec == Init /\ [][Next]_vars

\* the worker thread and the main thread's event loop keep running
FairSpec == Spec /\ WF_vars(WorkerStep) /\ WF_vars(Deliver)

(***************************************************************************)
(* What a job has emitted and what it has done.                            *)
(***************************************************************************)
\* the notifications of the job in emission order: those delivered, then
\* those still queued
Emitted == received \o queue

IsProgress(e) == e.type = "progress"

\* the progress values of a sequence of notifications, in order
ProgressOf(seq) == SelectSeq(seq, IsProgress)

FinishedCount == Cardinality({k \in 1..Len(Emitted) : Emitted[k].type = "on_finish"})

NonDecreasing(seq) ==
    \A j \in 1..Len(seq) : \A k \in j..Len(seq) : seq[j].v <= seq[k].v

\* the job's last progress value is 100
EndsAt100 ==
    /\ ProgressOf(Emitted) # << >>
    /\ ProgressOf(Emitted)[Len(ProgressOf(Emitted))].v = 100

\* a job has been started and its terminal event is not yet delivered
JobActive == pc # "idle" \/ queue # << >>

\* the step starts a job
JobStarts == pc' = "started" /\ pc # "started"

(***************************************************************************)
(* C1. Every started job emits finished exactly once, on every path: it is *)
(* not emitted before the converter body ends, it has been emitted exactly *)
(* once when the body has ended, and every started job gets there.         *)
(***************************************************************************)
FinishedOnce ==
    /\ FinishedCount <= 1
    /\ pc = "done" => FinishedCount = 1
    /\ pc \in {"started", "loop"} => FinishedCount = 0

C1_FinishedExactlyOnce ==
    /\ []FinishedOnce
    /\ (pc = "started") ~> (pc = "done" /\ FinishedCount = 1)

\* a job that ended through the except branch has emitted finished
C1_Witness ==
    /\ pc = "done" /\ handle # "released"
    /\ FinishedCount = 1

(***************************************************************************)
(* C2. Within one job the emitted progress values never decrease.          *)
(***************************************************************************)
C2_ProgressNonDecreasing == NonDecreasing(ProgressOf(Emitted))

(***************************************************************************)
(* C3. Every emitted progress value lies in 0..100.                        *)
(***************************************************************************)
C3_ProgressInRange ==
    \A k \in 1..Len(Emitted) :
        IsProgress(Emitted[k]) => Emitted[k].v \in 0..100

(***************************************************************************)
(* C4. The caller receives the progress values of a job in non-decreasing  *)
(* order and the terminal event last: once on_finish has run, no           *)
(* notification of the job is left to deliver.                             *)
(***************************************************************************)
\* on_finish is the last notification emitted, and when it has been
\* delivered nothing is pending
TerminalLast ==
    /\ \A k \in 1..Len(Emitted) : Emitted[k].type = "on_finish" => k = Len(Emitted)
    /\ pc = "idle" => queue = << >>

C4_OrderedDelivery ==
    /\ NonDecreasing(ProgressOf(received))
    /\ TerminalLast

(***************************************************************************)
(* C5. A video with N >= 1 frames, a true frame count and a non-zero frame *)
(* rate is decoded into N files named 1..N, zero-padded to the width of    *)
(* the decimal N, in frame order, and the last progress value is 100.      *)
(***************************************************************************)
\* the number of decimal digits of n >= 1
DecimalWidth(n) == CHOOSE w \in 1..9 : 10^(w - 1) <= n /\ n < 10^w

\* name is the index k written in exactly w decimal digits, then .png
IsPaddedName(name, k, w) ==
    /\ Len(name) = w + 1
    /\ name[w + 1] = ".png"
    /\ IsDigits(SubSeq(name, 1, w))
    /\ NatValue(SubSeq(name, 1, w)) = k

ValidVideoJob ==
    /\ slot = "images"
    /\ worker.filenames.kind = "str"
    /\ worker.filenames.video.frames >= 1
    /\ worker.filenames.video.count = worker.filenames.video.frames
    /\ worker.filenames.video.fps # 0

C5_DecoderOutput ==
    (pc = "done" /\ ValidVideoJob) =>
        LET N == worker.filenames.video.frames
        IN /\ Len(files) = N
           /\ \A k \in 1..N : IsPaddedName(files[k], k, DecimalWidth(N))
           /\ EndsAt100

\* a decoded video long enough for the names to be padded
C5_Witness ==
    /\ pc = "done" /\ ValidVideoJob
    /\ worker.filenames.video.frames >= 10
    /\ Len(files) >= 10
    /\ files[1] = <<"0", "1", ".png">>

(***************************************************************************)
(* Encode jobs, as the claims describe them.                               *)
(***************************************************************************)
\* the inputs of the encode job
JobImages == Items(worker.filenames)
ListLength == Len(JobImages)
Configured == worker.config.max_length
RepeatFrame == worker.config.repeatframe

\* min(config.max_length or listLength, listLength)
MaxFramesStated ==
    IF Configured = 0 THEN ListLength
    ELSE IF Configured < ListLength THEN Configured ELSE ListLength

\* the same for max_length >= 0; a negative max_length leaves out the last
\* -max_length images
MaxFramesSliced ==
    IF Configured >= 0 THEN MaxFramesStated
    ELSE IF ListLength + Configured > 0 THEN ListLength + Configured ELSE 0

\* the unreadable images among the first n
Skipped(n) == Cardinality({k \in 1..n : ~JobImages[k].ok})

\* how often image k was written
TimesWritten(k) == Cardinality({j \in 1..Len(frames) : frames[j].img = k})

\* the output stream holds, in list order, each readable image of the first
\* n RepeatFrame times in a row and no other frame
EncoderWrote(n) ==
    /\ \A k \in 1..ListLength :
         TimesWritten(k) = IF k <= n /\ JobImages[k].ok THEN RepeatFrame ELSE 0
    /\ \A j \in 1..(Len(frames) - 1) : frames[j].img <= frames[j + 1].img
    /\ Len(frames) = (n - Skipped(n)) * RepeatFrame

\* the encode job has run through its list and released the output stream
EncodeCompleted == pc = "done" /\ slot = "video" /\ handle = "released"

ConsumesFirst(n) ==
    slot = "video" /\ pc \in {"loop", "done"} =>
        /\ 1..i \subseteq 1..n
        /\ \A j \in 1..Len(frames) : frames[j].img \in 1..n
        /\ EncodeCompleted => 1..i = 1..n

C8_EncodeEndsAt100 ==
    (EncodeCompleted /\ worker.filenames.kind = "list" /\ ListLength > 0
        /\ Configured >= 0) => EndsAt100

(***************************************************************************)
(* C9. At most one job is active: a job is started only when no job is     *)
(* running and no notification of an earlier job is left to deliver.       *)
(***************************************************************************)
C9_SingleActiveJob == [][JobStarts => ~JobActive]_vars

\* a job is running, a notification is pending, and the trigger is disabled
C9_Witness ==
    /\ pc = "loop" /\ queue # << >>
    /\ ~mv_button /\ ~data_button /\ ~mode_slider

(***************************************************************************)
(* C10. A video that reports frame count 0 or frame rate 0 fails as an     *)
(* invalid source: the job goes straight to its end, where finished is     *)
(* emitted, without creating the folder, writing a file or emitting        *)
(* progress.                                                               *)
(***************************************************************************)
InvalidVideoJob ==
    /\ slot = "images"
    /\ worker.filenames.kind = "str"
    /\ (worker.filenames.video.count = 0 \/ worker.filenames.video.fps = 0)

C10_InvalidSource ==
    (InvalidVideoJob /\ pc \notin {"idle", "started"}) =>
        /\ pc = "done"
        /\ FinishedCount = 1
        /\ ~created
        /\ files = << >>
        /\ ProgressOf(Emitted) = << >>

\* the job of a video with readable frames and a reported count of 0 has ended
C10_Witness ==
    /\ InvalidVideoJob /\ pc = "done"
    /\ worker.filenames.video.frames > 0
    /\ worker.filenames.video.count = 0
    /\ worker.filenames.video.fps # 0

(***************************************************************************)
(* C11. A job that failed is reported to the caller as failed: its         *)
(* terminal event differs from the terminal event of a job that succeeded, *)
(* and it is reported exactly once.                                        *)
(***************************************************************************)
\* the converter body ended in its except branch
JobFailed == pc = "done" /\ handle # "released"

\* the terminal event a job that succeeded emits
SuccessEvent == OnFinish

\* the terminal event of the job
TerminalEvent == Emitted[Len(Emitted)]

\* every job that succeeded ends with SuccessEvent
SuccessReported ==
    (pc = "done" /\ handle = "released") =>
        FinishedCount = 1 /\ TerminalEvent = SuccessEvent

C11_FailureReported ==
    JobFailed => FinishedCount = 1 /\ TerminalEvent # SuccessEvent

(***************************************************************************)
(* C12. The VideoCapture of the Decoder and the VideoWriter of the Encoder *)
(* are released before finished is emitted, on every exit path.            *)
(***************************************************************************)
C12_ReleasedBeforeTerminal == FinishedCount > 0 => handle # "open"

(***************************************************************************)
(* C13. With size (0,0) the size is the first image's; an unreadable first *)
(* image is fatal: no stream is opened, no frame written, no progress      *)
(* emitted, and finished is emitted, whatever the later images are. With a *)
(* size that is given, an unreadable first image is skipped and the job    *)
(* runs to completion.                                                     *)
(***************************************************************************)
EncodeRuns ==
    /\ slot = "video" /\ pc \in {"loop", "done"}
    /\ ListLength > 0

FirstUnreadable == ~JobImages[1].ok

C13_SizeInference ==
    EncodeRuns =>
        /\ (worker.config.size = <<0, 0>> /\ FirstUnreadable) =>
              /\ pc = "done"
              /\ handle = "none"
              /\ frames = << >>
              /\ ProgressOf(Emitted) = << >>
              /\ FinishedCount = 1
        /\ (worker.config.size = <<0, 0>> /\ ~FirstUnreadable) =>
              \A j \in 1..Len(frames) :
                  /\ frames[j].size[1] = JobImages[1].shape[2]
                  /\ frames[j].size[2] = JobImages[1].shape[1]
        /\ (worker.config.size[1] > 0 /\ worker.config.size[2] > 0
              /\ FirstUnreadable) =>
              /\ TimesWritten(1) = 0
              /\ pc = "done" => handle = "released"

\* a job whose size could not be inferred although a later image is readable
C13_Witness ==
    /\ EncodeRuns /\ pc = "done"
    /\ worker.config.size = <<0, 0>>
    /\ worker.filenames.kind = "list"
    /\ ListLength = 2 /\ FirstUnreadable /\ JobImages[2].ok
    /\ frames = << >>

(***************************************************************************)
(* C14. An encode job emits one progress value per consumed image, skipped *)
(* or written: after the k-th consumed image the value                     *)
(* floor(100 * k / maxFrames), so there are as many progress values as     *)
(* consumed images.                                                        *)
(***************************************************************************)
C14_ProgressPerImage ==
    (slot = "video" /\ pc \in {"loop", "done"}) =>
        /\ Len(ProgressOf(Emitted)) = i
        /\ MaxFramesStated > 0 =>
              \A k \in 1..Len(ProgressOf(Emitted)) :
                  ProgressOf(Emitted)[k].v = (100 * k) \div MaxFramesStated

(***************************************************************************)
(* C15. A decode job stops at the first read() that fails: when the read   *)
(* of frame k fails before the reported end of the video, frames 1..k-1    *)
(* and no others have been written, no step of the job takes a written     *)
(* file back, and the job is reported as failed.                           *)
(***************************************************************************)
\* the decode job ended at a read() that failed before the reported end
ReadFailed ==
    /\ pc = "done" /\ slot = "images"
    /\ worker.filenames.kind = "str"
    /\ handle = "released"
    /\ worker.filenames.video.frames < worker.filenames.video.count

\* the files written are those of the frames read, in order
StopsAtFailure ==
    (slot = "images" /\ pc \in {"loop", "done"}) =>
        /\ Len(files) <= worker.filenames.video.frames
        /\ \A k \in 1..Len(files) : files[k] = ZFill(Str(k), Len(Str(length))) \o <<".png">>
        /\ pc = "done" /\ handle = "released" => Len(files) = worker.filenames.video.frames

\* while the job runs, what was written stays written
FilesRetained ==
    (pc \in {"loop", "done"} /\ pc' \in {"loop", "done"}) =>
        /\ Len(files') >= Len(files)
        /\ SubSeq(files', 1, Len(files)) = files

\* the parts of C15 about the files
C15_PartialOutputKept == []StopsAtFailure /\ [][FilesRetained]_vars

C15_StopsAndSignalsFailure ==
    /\ []StopsAtFailure
    /\ [][FilesRetained]_vars
    /\ [](ReadFailed => TerminalEvent # SuccessEvent)

(***************************************************************************)
(* C16. The filenames and the configuration a job was started with stay    *)
(* as they are while the job is active: no step taken between its start    *)
(* and its terminal event, update_config included, changes what the        *)
(* Worker reads.                                                           *)
(***************************************************************************)
C16_JobInputsReadOnly ==
    [][(JobActive /\ ~JobStarts /\ pc' # "idle") => worker' = worker]_vars

\* update_config has replaced the window's configuration while the job runs
\* on the one it was given
C16_Witness ==
    /\ pc = "loop"
    /\ config # worker.config
    /\ worker.config = DefaultConfig

(***************************************************************************)
(* C17. update_config on input with a field that is not a number changes   *)
(* nothing: the configuration is the previous one in every field, and any  *)
(* change of the configuration sets all fields from one well-formed input. *)
(***************************************************************************)
\* the decimal numerals of small integers
Numerals == {Str(n) : n \in -99..99}

NumeralValue(s) == CHOOSE n \in -99..99 : Str(n) = s

WellFormed(t) == \A k \in 1..5 : t[k] \in Numerals

\* the configurations the well-formed inputs describe
WholeConfigs ==
    {[max_length |-> NumeralValue(t[1]),
      size |-> <<NumeralValue(t[2]), NumeralValue(t[3])>>,
      repeatframe |-> NumeralValue(t[4]),
      fps |-> NumeralValue(t[5])] : t \in {u \in ConfigTexts : WellFormed(u)}}

MalformedRejected ==
    \A t \in ConfigTexts :
        ~WellFormed(t) => UpdatedConfig(config, t[1], t[2], t[3], t[4], t[5]) = config

C17_MalformedUpdateRejected ==
    /\ []MalformedRejected
    /\ [][config' # config => config' \in WholeConfigs]_vars

\* a configuration that an earlier update set and that a malformed input
\* with a well-formed, different first field leaves as it is
C17_Witness ==
    /\ config # DefaultConfig
    /\ \E t \in ConfigTexts :
          /\ ~WellFormed(t)
          /\ t[1] \in Numerals /\ NumeralValue(t[1]) # config.max_length
          /\ UpdatedConfig(config, t[1], t[2], t[3], t[4], t[5]) = config

(***************************************************************************)
(* C18. A job is started with a source of the shape its mode requires: a   *)
(* decode job with a video path, an encode job with a list of image paths. *)
(***************************************************************************)
C18_SourceMatchesMode ==
    pc = "started" =>
        /\ slot = "images" => worker.filenames.kind = "str"
        /\ slot = "video" => worker.filenames.kind = "list"

(***************************************************************************)
(* C19. The start button, the source button and the mode slider are        *)
(* disabled from the click that starts a job until on_finish has run, and  *)
(* after every started job all three are enabled again.                    *)
(***************************************************************************)
ControlsDisabled == ~mv_button /\ ~data_button /\ ~mode_slider

ControlsEnabled == mv_button /\ data_button /\ mode_slider

C19_ControlsDisabledThenEnabled ==
    /\ [](JobActive => ControlsDisabled)
    /\ (pc = "started") ~> (~JobActive /\ ControlsEnabled)

\* a failed job whose on_finish is the next delivery: the controls are
\* still disabled
C19_Witness ==
    /\ JobFailed
    /\ queue = <<OnFinish>>
    /\ ControlsDisabled

=============================================================================
